---- MODULE Spec2Model ----
(***************************************************************************)
(* Authentication actions (src/app/actions/auth.ts) and the data access    *)
(* layer (src/lib/dal.ts) of the application, as a state machine.          *)
(*                                                                         *)
(* Every client owns one session channel (its cookie jar) and runs one     *)
(* request at a time; requests of different clients interleave at their    *)
(* awaits on the data store and the session store.  Strings that the code  *)
(* measures or parses (emails, passwords) are sequences of characters.     *)
(*                                                                         *)
(* '@/lib/auth' (createSession, deleteSession, getSession, createUser,     *)
(* verifyPassword) is not part of the sources at hand: those operators     *)
(* follow sections 4.1, 4.2, 5 and 6 of the specification.                 *)
(***************************************************************************)
EXTENDS Integers, Sequences, FiniteSets, TLC

VARIABLES
    users,      \* the users table: sequence of [id, email, password]
    cookie,     \* cookie[c]: the session channel of client c
    pc,         \* pc[c]: position of client c's request
    req,        \* req[c]: operation and form data of c's current/last request
    user,       \* user[c]: the local `user` of signin/signup
    session,    \* session[c]: the local `session` of getCurrentUser
    result,     \* result[c]: what the caller of the request observed
    redirects,  \* redirects[c]: destinations passed to redirect() by c's request
    trace,      \* trace[c]: steps c's current/last request went through
    lastAuth,   \* lastAuth[c]: user of the last successful signin/signup on c
    signedOut,  \* signedOut[c]: signout ran on c after that signin/signup
    overlap,    \* pairs of clients whose current requests ran concurrently
    fresh,      \* fresh[c]: the request's email had no User when it began
    nreq        \* requests issued so far

vars == <<users, cookie, pc, req, user, session, result, redirects, trace,
          lastAuth, signedOut, overlap, fresh, nreq>>

\* ------------------------------------------------------------------ bounds
MaxReq == 3

Clients == {"c1", "c2"}

\* ------------------------------------------------------------ input domain
E1 == <<"a", "@", "b", ".", "c", "o">>
E2 == <<"c", "@", "b", ".", "c", "o">>
EBad == <<"a", "b">>
P5 == <<"s", "e", "c", "r", "e">>
P6 == <<"s", "e", "c", "r", "e", "t">>

Emails == {E1, E2, EBad}
SignInPasswords == {<<>>, P5, P6}
SignUpPasswords == {P5, P6}

None == <<>>
Some(v) == <<v>>

\* --------------------------------------------------------------- zod (email)
Letters == {"a", "b", "c", "e", "o", "r", "s", "t"}

RECURSIVE Count(_, _)
Count(s, ch) ==
    IF s = <<>> THEN 0
    ELSE (IF Head(s) = ch THEN 1 ELSE 0) + Count(Tail(s), ch)

IndexOf(s, ch) == CHOOSE i \in 1..Len(s) : s[i] = ch /\ \A j \in 1..(i-1) : s[j] # ch

LastIndexOf(s, ch) == CHOOSE i \in 1..Len(s) : s[i] = ch /\ \A j \in (i+1)..Len(s) : s[j] # ch

\* z.string().email(): local@label(.label)*.tld, tld of two or more letters
IsEmail(s) ==
    /\ Count(s, "@") = 1
    /\ LET at == IndexOf(s, "@")
           local == SubSeq(s, 1, at - 1)
           domain == SubSeq(s, at + 1, Len(s))
       IN /\ Len(local) >= 1
          /\ local[1] # "."
          /\ local[Len(local)] # "."
          /\ \A i \in 1..(Len(s) - 1) : ~(s[i] = "." /\ s[i+1] = ".")
          /\ \A i \in 1..Len(local) : local[i] \in Letters \cup {"."}
          /\ Count(domain, ".") >= 1
          /\ domain[1] \in Letters
          /\ \A i \in 1..Len(domain) : domain[i] \in Letters \cup {"."}
          /\ LET dot == LastIndexOf(domain, ".")
             IN Len(domain) - dot >= 2

\* ------------------------------------------------------------ zod (schemas)
MinPasswordLen == 6

EmailIssues(email) ==
    (IF Len(email) < 1 THEN <<"Email is required">> ELSE <<>>)
    \o (IF ~IsEmail(email) THEN <<"Invalid email format">> ELSE <<>>)

\* fieldErrors of error.flatten(): only the fields that have issues
FieldErrors(all) == [f \in {k \in DOMAIN all : all[k] # <<>>} |-> all[f]]

SignInSchema(data) ==
    FieldErrors([email |-> EmailIssues(data.email),
                 password |-> IF Len(data.password) < 1
                              THEN <<"Password is required">> ELSE <<>>])

SignUpSchema_offByOne(data) ==
    FieldErrors([email |-> EmailIssues(data.email),
                 password |-> IF Len(data.password) <= MinPasswordLen
                              THEN <<"Password must be at least 6 characters">>
                              ELSE <<>>,
                 confirmPassword |->
                     (IF Len(data.confirmPassword) < 1
                      THEN <<"Please confirm your password">> ELSE <<>>)
                     \o (IF data.password # data.confirmPassword
                         THEN <<"Passwords don't match">> ELSE <<>>)])

SignUpSchema_pathPassword(data) ==
    FieldErrors([email |-> EmailIssues(data.email),
                 password |->
                     (IF Len(data.password) < MinPasswordLen
                      THEN <<"Password must be at least 6 characters">>
                      ELSE <<>>)
                     \o (IF data.password # data.confirmPassword
                         THEN <<"Passwords don't match">> ELSE <<>>),
                 confirmPassword |->
                     IF Len(data.confirmPassword) < 1
                     THEN <<"Please confirm your password">> ELSE <<>>])

\* the refinement (lines 27-30) also runs when a string check of line 23-25
\* failed: those checks leave the parsed object dirty, not aborted
SignUpSchema(data) ==
    FieldErrors([email |-> EmailIssues(data.email),
                 password |-> IF Len(data.password) < MinPasswordLen
                              THEN <<"Password must be at least 6 characters">>
                              ELSE <<>>,
                 confirmPassword |->
                     (IF Len(data.confirmPassword) < 1
                      THEN <<"Please confirm your password">> ELSE <<>>)
                     \o (IF data.password # data.confirmPassword
                         THEN <<"Passwords don't match">> ELSE <<>>)])

Valid_always(fieldErrors) == TRUE

\* safeParse(data).success
Valid(fieldErrors) == DOMAIN fieldErrors = {}

\* ------------------------------------------------------- credential hasher
\* the random salt of the n-th hash that is stored: fresh for every record
Salt(n) == n

Digest(salt, plaintext) == <<"$", salt, "$">> \o plaintext

hashPassword(plaintext, salt) == [salt |-> salt, digest |-> Digest(salt, plaintext)]

verifyPassword(plaintext, hashed) == Digest(hashed.salt, plaintext) = hashed.digest

\* ------------------------------------------------------- ActionResponse
Response(success, message, errors, error) ==
    [success |-> success, message |-> message, errors |-> errors, error |-> error]

Return(v) == [kind |-> "return", value |-> v]
Throw(e) == [kind |-> "throw", error |-> e]
NoResult == [kind |-> "none"]

ValidationFailed(fieldErrors) ==
    Response(FALSE, "Validation failed", Some(fieldErrors), None)

\* signin, lines 67-73: no user for the email
InvalidCredentialsNoUser ==
    Response(FALSE, "Invalid email or password",
             Some([email |-> <<"Invalid email or password">>]), None)

InvalidCredentialsBadPassword_distinct ==
    Response(FALSE, "Invalid password",
             Some([password |-> <<"Invalid password">>]), None)

\* signin, lines 79-85: password verification failed
InvalidCredentialsBadPassword ==
    Response(FALSE, "Invalid email or password",
             Some([email |-> <<"Invalid email or password">>]), None)

SignedIn == Response(TRUE, "Signed in successfully", None, None)

SomethingWentWrong_success == Response(TRUE, "Something went wrong", None, None)

\* signin, lines 96-99: the catch block
SomethingWentWrong == Response(FALSE, "Something went wrong", None, None)

TryAgain_success == Response(TRUE, "try again", None, Some("failed to create user"))

\* signup, lines 131-135: createUser returned no user
TryAgain == Response(FALSE, "try again", None, Some("failed to create user"))

AccountCreated == Response(TRUE, "Account created successfully", None, None)

SignupFailed_success ==
    Response(TRUE, "An error occured while creating your account", None,
             Some("Failed to create account"))

\* signup, lines 147-151: the catch block
SignupFailed ==
    Response(FALSE, "An error occured while creating your account", None,
             Some("Failed to create account"))

\* ------------------------------------------------------------------- state
Idle(c) == pc[c] \in {"idle", "done"}
InFlight(c) == ~Idle(c)

HasUser(email) == \E i \in 1..Len(users) : users[i].email = email

UserByEmail(email) == users[CHOOSE i \in 1..Len(users) : users[i].email = email]

UserById(id) ==
    IF \E i \in 1..Len(users) : users[i].id = id
    THEN Some(users[CHOOSE i \in 1..Len(users) : users[i].id = id])
    ELSE None

Did(c, step) == \E i \in 1..Len(trace[c]) : trace[c][i] = step

Init ==
    /\ users = <<>>
    /\ cookie = [c \in Clients |-> None]
    /\ pc = [c \in Clients |-> "idle"]
    /\ req = [c \in Clients |-> [op |-> "none"]]
    /\ user = [c \in Clients |-> None]
    /\ session = [c \in Clients |-> None]
    /\ result = [c \in Clients |-> NoResult]
    /\ redirects = [c \in Clients |-> <<>>]
    /\ trace = [c \in Clients |-> <<>>]
    /\ lastAuth = [c \in Clients |-> None]
    /\ signedOut = [c \in Clients |-> FALSE]
    /\ overlap = {}
    /\ fresh = [c \in Clients |-> FALSE]
    /\ nreq = 0

\* a request r of client c begins; suspended: it reaches an await on a store
Begin(c, r, suspended) ==
    /\ Idle(c)
    /\ nreq < MaxReq
    /\ nreq' = nreq + 1
    /\ req' = [req EXCEPT ![c] = r]
    /\ user' = [user EXCEPT ![c] = None]
    /\ fresh' = [fresh EXCEPT ![c] = r.op \in {"signin", "signup"}
                                      /\ ~HasUser(r.email)]
    /\ overlap' = {p \in overlap : c \notin p}
                  \cup (IF suspended
                        THEN {{c, d} : d \in {e \in Clients : e # c /\ InFlight(e)}}
                        ELSE {})

\* the request of client c completes: its caller observes v
Respond(c, v, steps) ==
    /\ pc' = [pc EXCEPT ![c] = "done"]
    /\ result' = [result EXCEPT ![c] = v]
    /\ trace' = [trace EXCEPT ![c] = steps]

\* the request of client c suspends at its next await
Continue(c, at, steps) ==
    /\ pc' = [pc EXCEPT ![c] = at]
    /\ result' = [result EXCEPT ![c] = NoResult]
    /\ trace' = [trace EXCEPT ![c] = steps]

\* bookkeeping: the caller of a signin/signup for userId on channel c
\* observes response
Observed(c, response, userId) ==
    IF response.success
    THEN /\ lastAuth' = [lastAuth EXCEPT ![c] = Some(userId)]
         /\ signedOut' = [signedOut EXCEPT ![c] = FALSE]
    ELSE UNCHANGED <<lastAuth, signedOut>>

\* ----------------------------------------------------------- session store
SessionOutcomes == {"ok", "throw"}
DestroyOutcomes == {"ok", "throw_kept", "throw_cleared"}
StoreOutcomes == {"ok", "throw"}
CreateOutcomes == {"ok", "null", "throw"}

\* createSession(userId): sets the channel's token, bound to userId
createSession(c, userId, outcome) ==
    cookie' = IF outcome = "ok"
              THEN [cookie EXCEPT ![c] = Some([userId |-> userId])]
              ELSE cookie

\* deleteSession(): clears the channel's token
deleteSession(c, outcome) ==
    cookie' = IF outcome \in {"ok", "throw_cleared"}
              THEN [cookie EXCEPT ![c] = None]
              ELSE cookie

\* getSession(): the session of the channel's token, or null
getSession(c) == cookie[c]

\* the data store enforces unique emails atomically: an insert for a taken
\* email fails, by a null result or by an exception
createUserOutcomes(email) ==
    IF HasUser(email) THEN CreateOutcomes \ {"ok"} ELSE CreateOutcomes

\* createUser(email, password): the User record that is inserted
createUser(email, password, salt) ==
    [id |-> Len(users) + 1, email |-> email,
     password |-> hashPassword(password, salt)]

\* ---------------------------------------------------------------- dal.ts
\* getUserByEmail(email): the User, undefined when there is none, null when
\* the query throws (both falsy for signin's `!user`)
getUserByEmail(email, outcome) ==
    IF outcome = "ok" /\ HasUser(email) THEN Some(UserByEmail(email)) ELSE None

\* getCurrentUser, line 9: getSession(), outside the try block
getCurrentUser(c) ==
    /\ Begin(c, [op |-> "getCurrentUser"], TRUE)
    /\ \E outcome \in StoreOutcomes :
         IF outcome = "throw"
         THEN Respond(c, Throw("session store error"), <<"session_error">>)
         ELSE IF getSession(c) = None
              THEN Respond(c, Return(None), <<"no_session">>)
              ELSE Continue(c, "gcu_query", <<"session_found">>)
    /\ session' = [session EXCEPT ![c] = getSession(c)]
    /\ redirects' = [redirects EXCEPT ![c] = <<>>]
    /\ UNCHANGED <<users, cookie, lastAuth, signedOut>>

\* getCurrentUser, lines 15-25: the query by session.userId, errors swallowed
getCurrentUserQuery(c) ==
    /\ pc[c] = "gcu_query"
    /\ \E outcome \in StoreOutcomes :
         IF outcome = "ok"
         THEN Respond(c, Return(UserById(session[c][1].userId)),
                      trace[c] \o <<"query_ok">>)
         ELSE Respond(c, Return(None), trace[c] \o <<"query_error">>)
    /\ UNCHANGED <<users, cookie, req, user, session, redirects, lastAuth,
                   signedOut, overlap, fresh, nreq>>

\* the issues table; its rows are written elsewhere, each for an existing
\* owner, and only read here
IssueRows ==
    {[id |-> "i1", createdAt |-> 1, userId |-> 1],
     [id |-> "i2", createdAt |-> 2, userId |-> 1],
     [id |-> "i3", createdAt |-> 3, userId |-> 2]}

RECURSIVE OrderByCreatedAtDesc(_)
OrderByCreatedAtDesc(rows) ==
    IF rows = {} THEN <<>>
    ELSE LET newest == CHOOSE r \in rows :
                           \A o \in rows : o.createdAt <= r.createdAt
         IN <<newest>> \o OrderByCreatedAtDesc(rows \ {newest})

\* db.query.issues.findMany({with: {user: true}, orderBy: desc(createdAt)})
findManyIssues ==
    LET rows == {r \in IssueRows : UserById(r.userId) # None}
        ordered == OrderByCreatedAtDesc(rows)
    IN [i \in 1..Len(ordered) |->
           [id |-> ordered[i].id, createdAt |-> ordered[i].createdAt,
            userId |-> ordered[i].userId, user |-> UserById(ordered[i].userId)[1]]]

\* getIssues, lines 43-56
getIssues(c) ==
    /\ Begin(c, [op |-> "getIssues"], FALSE)
    /\ \E outcome \in StoreOutcomes :
         IF outcome = "ok"
         THEN Respond(c, Return(findManyIssues), <<"issues_ok">>)
         ELSE Respond(c, Throw("Failed to fetch issues"), <<"issues_error">>)
    /\ session' = [session EXCEPT ![c] = None]
    /\ redirects' = [redirects EXCEPT ![c] = <<>>]
    /\ UNCHANGED <<users, cookie, lastAuth, signedOut>>

\* --------------------------------------------------------------- signin
signin(c, formData) ==
    LET validationResult == SignInSchema(formData)
    IN /\ Begin(c, [op |-> "signin", email |-> formData.email,
                    password |-> formData.password], Valid(validationResult))
       /\ IF ~Valid(validationResult)
          THEN Respond(c, Return(ValidationFailed(validationResult)),
                       <<"validate_fail">>)
          ELSE Continue(c, "signin_lookup", <<"validate_ok">>)
       /\ session' = [session EXCEPT ![c] = None]
       /\ redirects' = [redirects EXCEPT ![c] = <<>>]
       /\ UNCHANGED <<users, cookie, lastAuth, signedOut>>

\* signin, lines 65-74
signinLookup(c) ==
    /\ pc[c] = "signin_lookup"
    /\ \E outcome \in StoreOutcomes :
         LET found == getUserByEmail(req[c].email, outcome)
             step == IF outcome = "throw" THEN "lookup_error"
                     ELSE IF found = None THEN "lookup_none" ELSE "lookup_found"
         IN /\ user' = [user EXCEPT ![c] = found]
            /\ IF found = None
               THEN Respond(c, Return(InvalidCredentialsNoUser), trace[c] \o <<step>>)
               ELSE Continue(c, "signin_verify", trace[c] \o <<step>>)
    /\ UNCHANGED <<users, cookie, req, session, redirects, lastAuth, signedOut,
                   overlap, fresh, nreq>>

passwordRejected_never(isPasswordValid) == FALSE

passwordRejected_inverted(isPasswordValid) == isPasswordValid

\* signin, line 78: if (!isPasswordValid)
passwordRejected(isPasswordValid) == ~isPasswordValid

\* signin, lines 77-86
signinVerify(c) ==
    /\ pc[c] = "signin_verify"
    /\ LET isPasswordValid == verifyPassword(req[c].password, user[c][1].password)
       IN IF passwordRejected(isPasswordValid)
          THEN Respond(c, Return(InvalidCredentialsBadPassword),
                       trace[c] \o <<"verify_false">>)
          ELSE Continue(c, "signin_session", trace[c] \o <<"verify_true">>)
    /\ UNCHANGED <<users, cookie, req, user, session, redirects, lastAuth,
                   signedOut, overlap, fresh, nreq>>

\* signin, lines 89-100
signinSession_rehash(c) ==
    /\ pc[c] = "signin_session"
    /\ \E outcome \in SessionOutcomes :
         /\ createSession(c, user[c][1].id, outcome)
         /\ LET response == IF outcome = "ok" THEN SignedIn ELSE SomethingWentWrong
            IN /\ Respond(c, Return(response), trace[c] \o
                     <<IF outcome = "ok" THEN "session_ok" ELSE "session_error">>)
               /\ Observed(c, response, user[c][1].id)
    /\ users' = [users EXCEPT ![user[c][1].id].password =
                     hashPassword(req[c].password, Salt(Len(users) + 1))]
    /\ UNCHANGED <<req, user, session, redirects, overlap, fresh, nreq>>

signinSession(c) ==
    /\ pc[c] = "signin_session"
    /\ \E outcome \in SessionOutcomes :
         /\ createSession(c, user[c][1].id, outcome)
         /\ LET response == IF outcome = "ok" THEN SignedIn ELSE SomethingWentWrong
            IN /\ Respond(c, Return(response), trace[c] \o
                     <<IF outcome = "ok" THEN "session_ok" ELSE "session_error">>)
               /\ Observed(c, response, user[c][1].id)
    /\ UNCHANGED <<users, req, user, session, redirects, overlap, fresh, nreq>>

\* --------------------------------------------------------------- signup
signup(c, formData) ==
    LET validationResult == SignUpSchema(formData)
    IN /\ Begin(c, [op |-> "signup", email |-> formData.email,
                    password |-> formData.password,
                    confirmPassword |-> formData.confirmPassword],
                Valid(validationResult))
       /\ IF ~Valid(validationResult)
          THEN Respond(c, Return(ValidationFailed(validationResult)),
                       <<"validate_fail">>)
          ELSE Continue(c, "signup_create", <<"validate_ok">>)
       /\ session' = [session EXCEPT ![c] = None]
       /\ redirects' = [redirects EXCEPT ![c] = <<>>]
       /\ UNCHANGED <<users, cookie, lastAuth, signedOut>>

\* signup, lines 127-136
signupCreate(c) ==
    /\ pc[c] = "signup_create"
    /\ \E outcome \in createUserOutcomes(req[c].email) :
         LET taken == HasUser(req[c].email)
             created == createUser(req[c].email, req[c].password,
                                   Salt(Len(users) + 1))
         IN CASE outcome = "ok" ->
                   /\ users' = Append(users, created)
                   /\ user' = [user EXCEPT ![c] = Some(created)]
                   /\ Continue(c, "signup_session", trace[c] \o <<"create_ok">>)
              [] outcome = "null" ->
                   /\ UNCHANGED <<users, user>>
                   /\ Respond(c, Return(TryAgain), trace[c] \o
                          <<IF taken THEN "create_duplicate" ELSE "create_failed">>)
              [] outcome = "throw" ->
                   /\ UNCHANGED <<users, user>>
                   /\ Respond(c, Return(SignupFailed), trace[c] \o
                          <<IF taken THEN "create_duplicate" ELSE "create_error">>)
    /\ UNCHANGED <<cookie, req, session, redirects, lastAuth, signedOut,
                   overlap, fresh, nreq>>

\* signup, lines 139-152
signupSession(c) ==
    /\ pc[c] = "signup_session"
    /\ \E outcome \in SessionOutcomes :
         /\ createSession(c, user[c][1].id, outcome)
         /\ LET response == IF outcome = "ok" THEN AccountCreated ELSE SignupFailed
            IN /\ Respond(c, Return(response), trace[c] \o
                     <<IF outcome = "ok" THEN "session_ok" ELSE "session_error">>)
               /\ Observed(c, response, user[c][1].id)
    /\ UNCHANGED <<users, req, user, session, redirects, overlap, fresh, nreq>>

\* --------------------------------------------------------------- signout
\* redirect() of next/navigation never returns: it throws NEXT_REDIRECT
redirect(url) == Throw("NEXT_REDIRECT")

\* try/finally: an abrupt completion of the finally block replaces the
\* completion of the try/catch part
Finally(pending, finalizer) ==
    IF finalizer.kind = "throw" THEN finalizer ELSE pending

signoutRedirects_afterTry(outcome) ==
    IF outcome = "ok" THEN <<"/signin">> ELSE <<>>

\* signout, lines 162-164: the calls of redirect() for an outcome of
\* deleteSession(); the finally block runs on every exit path
signoutRedirects(outcome) == <<"/signin">>

signout(c) ==
    /\ Begin(c, [op |-> "signout"], FALSE)
    /\ \E outcome \in DestroyOutcomes :
         LET pending == IF outcome = "ok" THEN Return(None)
                        ELSE Throw("session store error")
             calls == signoutRedirects(outcome)
             completion == IF calls = <<>> THEN pending
                           ELSE Finally(pending, redirect(calls[1]))
         IN /\ deleteSession(c, outcome)
            /\ redirects' = [redirects EXCEPT ![c] = calls]
            /\ Respond(c, completion,
                       <<IF outcome = "ok" THEN "destroy_ok" ELSE "destroy_error">>)
    /\ session' = [session EXCEPT ![c] = None]
    /\ signedOut' = [signedOut EXCEPT ![c] = TRUE]
    /\ UNCHANGED <<users, lastAuth>>

\* ------------------------------------------------------------ specification
Next ==
    \E c \in Clients :
        \/ \E e \in Emails, p \in SignInPasswords :
               signin(c, [email |-> e, password |-> p])
        \/ signinLookup(c)
        \/ signinVerify(c)
        \/ signinSession(c)
        \/ \E e \in Emails, p \in SignUpPasswords, cp \in SignUpPasswords :
               signup(c, [email |-> e, password |-> p, confirmPassword |-> cp])
        \/ signupCreate(c)
        \/ signupSession(c)
        \/ signout(c)
        \/ getCurrentUser(c)
        \/ getCurrentUserQuery(c)
        \/ getIssues(c)

Spec == Init /\ [][Next]_vars

\* ------------------------------------------------------------- properties
Done(c, op) == pc[c] = "done" /\ req[c].op = op

Succeeded(c) == result[c].kind = "return" /\ result[c].value.success

Failed(c) == result[c].kind = "return" /\ ~result[c].value.success

TokenFor(u) == Some([userId |-> u.id])

InUsers(u) == \E i \in 1..Len(users) : users[i] = u

\* a data-store or session-store operation failed in c's request
StoreFailed(c) ==
    \/ Did(c, "lookup_error")
    \/ Did(c, "create_failed")
    \/ Did(c, "create_error")
    \/ Did(c, "session_error")
    \/ Did(c, "query_error")
    \/ Did(c, "destroy_error")

\* C1: a signin request creates a session for user u only after its input
\* passed validation, the lookup by the submitted email returned u and the
\* submitted password verified against u's stored hash; a request that failed
\* at validation, lookup or verification responds success=false and created
\* no session.
C1_SessionOnlyAfterChecks ==
    \A c \in Clients :
        req[c].op = "signin" =>
            /\ Did(c, "session_ok") =>
                   /\ Valid(SignInSchema(req[c]))
                   /\ trace[c] = <<"validate_ok", "lookup_found", "verify_true",
                                   "session_ok">>
                   /\ user[c] # None
                   /\ InUsers(user[c][1])
                   /\ user[c][1].email = req[c].email
                   /\ verifyPassword(req[c].password, user[c][1].password)
                   /\ cookie[c] = TokenFor(user[c][1])
            /\ (\/ Did(c, "validate_fail")
                \/ Did(c, "lookup_none")
                \/ Did(c, "lookup_error")
                \/ Did(c, "verify_false")) =>
                   /\ pc[c] = "done"
                   /\ Failed(c)
                   /\ ~Did(c, "session_ok")

C1_Witness ==
    \E c \in Clients :
        /\ Done(c, "signin")
        /\ Did(c, "session_ok")
        /\ Succeeded(c)
        /\ \E d \in Clients : Done(d, "signin") /\ Did(d, "verify_false")

\* C2: after a successful signin or signup on a client, getCurrentUser
\* returns that User; after signout on the client, getCurrentUser returns none
\* whatever the state before (session, no session, failed destruction).
C2_CurrentUserFollowsAuth ==
    \A c \in Clients :
        (Done(c, "getCurrentUser") /\ ~StoreFailed(c)) =>
            /\ signedOut[c] => result[c] = Return(None)
            /\ (~signedOut[c] /\ lastAuth[c] # None) =>
                   /\ result[c].kind = "return"
                   /\ result[c].value # None
                   /\ result[c].value[1].id = lastAuth[c][1]

\* C3: a signin whose email matches no User and a signin whose password
\* fails verification return the same response: success=false, the message
\* 'Invalid email or password', the same errors.email and nothing else.
C3_IndistinguishableFailures ==
    \A c, d \in Clients :
        (/\ Done(c, "signin") /\ Did(c, "lookup_none")
         /\ Done(d, "signin") /\ Did(d, "verify_false")) =>
            /\ result[c] = result[d]
            /\ result[c].value.success = FALSE
            /\ result[c].value.message = "Invalid email or password"
            /\ result[c].value.errors =
                   Some([email |-> <<"Invalid email or password">>])
            /\ result[c].value.error = None

C3_Witness ==
    \E c, d \in Clients :
        /\ Done(c, "signin") /\ Did(c, "lookup_none")
        /\ Done(d, "signin") /\ Did(d, "verify_false")

\* C4: whenever a data-store or session-store operation fails in a signin
\* (the user lookup included), signin returns {success:false,
\* message:'Something went wrong'} and throws nothing.
C4_StoreFailureIsGeneric ==
    \A c \in Clients :
        (Done(c, "signin") /\ StoreFailed(c)) =>
            result[c] = Return(SomethingWentWrong)

\* C5: a signin or signup that returns success=false left no session token
\* set by it on the channel and (signup) no new User record in the store.
C5_NoPartialSuccess ==
    \A c \in Clients :
        ((Done(c, "signin") \/ Done(c, "signup")) /\ Failed(c)) =>
            /\ ~Did(c, "session_ok")
            /\ req[c].op = "signup" => ~(user[c] # None /\ InUsers(user[c][1]))

\* C6: when session destruction fails in signout, the caller of signout
\* observes the destroy error itself.
C6_DestroyErrorReraised ==
    \A c \in Clients :
        (Done(c, "signout") /\ Did(c, "destroy_error")) =>
            result[c] = Throw("session store error")

\* C7: every signout ends by redirecting to the signin destination, when
\* the session destruction succeeded and when it failed.
C7_SignoutAlwaysRedirects ==
    \A c \in Clients :
        Done(c, "signout") =>
            /\ redirects[c] = <<"/signin">>
            /\ result[c] = redirect("/signin")

C7_Witness ==
    \E c, d \in Clients :
        /\ Done(c, "signout") /\ Did(c, "destroy_error")
        /\ Done(d, "signout") /\ Did(d, "destroy_ok")

\* two signup requests for the same valid email that ran concurrently and
\* both responded
ConcurrentSignups(c, d) ==
    /\ c # d
    /\ {c, d} \in overlap
    /\ Done(c, "signup") /\ Done(d, "signup")
    /\ Did(c, "validate_ok") /\ Did(d, "validate_ok")
    /\ req[c].email = req[d].email

C9_CurrentUserNeverThrows ==
    \A c \in Clients :
        Done(c, "getCurrentUser") =>
            /\ result[c].kind = "return"
            /\ (Did(c, "no_session") \/ StoreFailed(c)) => result[c] = Return(None)

\* C10: a channel holds at most one session token, and the token it holds
\* is bound to the user of the most recent successful signin or signup on
\* the channel.
C10_TokenOfLatestAuth ==
    \A c \in Clients :
        /\ Len(cookie[c]) <= 1
        /\ cookie[c] # None => lastAuth[c] = Some(cookie[c][1].userId)

C10_Witness ==
    \E c \in Clients :
        /\ Done(c, "signin") /\ Succeeded(c)
        /\ Len(users) = 2
        /\ cookie[c] = TokenFor(users[1])
        /\ \A d \in Clients \ {c} : req[d].op = "none"

UniqueEmails(us) ==
    \A i, j \in 1..Len(us) : us[i].email = us[j].email => i = j

Contains(msgs, msg) == \E i \in 1..Len(msgs) : msgs[i] = msg

\* the errors map of a validation failure response, fields without entry
\* mapped to no messages
ErrorsOf(c, field) ==
    IF field \in DOMAIN result[c].value.errors[1]
    THEN result[c].value.errors[1][field]
    ELSE <<>>

Mismatched(c) ==
    Done(c, "signup") /\ req[c].password # req[c].confirmPassword

ValidationFailure(c) ==
    /\ result[c].kind = "return"
    /\ result[c].value.success = FALSE
    /\ result[c].value.message = "Validation failed"
    /\ result[c].value.errors # None
    /\ result[c].value.error = None

\* C12: for every signup input whose password differs from confirmPassword
\* the response is a validation failure whose errors map has an entry for
\* confirmPassword and none for password.
C12_MismatchOnlyOnConfirm ==
    \A c \in Clients :
        Mismatched(c) =>
            /\ ValidationFailure(c)
            /\ ErrorsOf(c, "confirmPassword") # <<>>
            /\ ErrorsOf(c, "password") = <<>>

\* C12 (amended): for every signup input whose password differs from
\* confirmPassword the response is a validation failure whose errors map has
\* an entry for confirmPassword carrying "Passwords don't match"; it has an
\* entry for password exactly when the password itself has fewer than 6
\* characters, and that entry never carries the mismatch message.
C12_MismatchReportedOnConfirm ==
    \A c \in Clients :
        Mismatched(c) =>
            /\ ValidationFailure(c)
            /\ Contains(ErrorsOf(c, "confirmPassword"), "Passwords don't match")
            /\ ~Contains(ErrorsOf(c, "password"), "Passwords don't match")
            /\ (ErrorsOf(c, "password") # <<>>) <=>
                   (Len(req[c].password) < MinPasswordLen)

C12_Witness ==
    \E c, d \in Clients :
        /\ Mismatched(c) /\ req[c].password = P6
        /\ ErrorsOf(c, "password") = <<>>
        /\ Mismatched(d) /\ req[d].password = P5
        /\ ErrorsOf(d, "password") # <<>>

\* a signup request with a well-formed email and a confirmed password
WellFormedSignup(c) ==
    /\ req[c].op = "signup"
    /\ IsEmail(req[c].email)
    /\ req[c].confirmPassword = req[c].password

\* C13: for a signup with well-formed email and confirmPassword equal to
\* password, validation fails exactly when the password has fewer than 6
\* characters: with 5 the response is 'Validation failed' and no user is
\* created, with 6 the request goes on to user creation.
C13_PasswordLengthBoundary ==
    \A c \in Clients :
        WellFormedSignup(c) =>
            /\ Did(c, "validate_fail") <=> (Len(req[c].password) < 6)
            /\ Len(req[c].password) = 5 =>
                   /\ pc[c] = "done"
                   /\ ValidationFailure(c)
                   /\ DOMAIN result[c].value.errors[1] = {"password"}
                   /\ trace[c] = <<"validate_fail">>
                   /\ user[c] = None
            /\ Len(req[c].password) = 6 =>
                   /\ trace[c][1] = "validate_ok"
                   /\ \/ pc[c] = "signup_create"
                      \/ Did(c, "create_ok")
                      \/ Did(c, "create_duplicate")
                      \/ Did(c, "create_failed")
                      \/ Did(c, "create_error")

C13_Witness ==
    \E c, d \in Clients :
        /\ WellFormedSignup(c) /\ Len(req[c].password) = 5 /\ pc[c] = "done"
        /\ WellFormedSignup(d) /\ Len(req[d].password) = 6 /\ Did(d, "create_ok")

\* C14: when user creation or session creation throws during signup, signup
\* returns exactly {success:false, message:"An error occurred while creating
\* your account", error:"Failed to create account"} and throws nothing.
C14_SignupFailureEnvelope ==
    \A c \in Clients :
        (Done(c, "signup") /\ (Did(c, "create_error") \/ Did(c, "session_error"))) =>
            result[c] =
                Return(Response(FALSE,
                                "An error occurred while creating your account",
                                None, Some("Failed to create account")))

\* the password a User record was signed up with
SignedUpWith(u, p) == u.password = hashPassword(p, u.password.salt)

\* a signin for an email whose User existed when the request began, in which
\* no store operation failed
LaterSignin(c) ==
    /\ Done(c, "signin")
    /\ ~fresh[c]
    /\ ~StoreFailed(c)

InvalidCredentials ==
    Response(FALSE, "Invalid email or password",
             Some([email |-> <<"Invalid email or password">>]), None)

\* C15: after a signup with email e and password p, and without store
\* failures, a later signin with e and p succeeds with 'Signed in
\* successfully', and every signin with e and another password returns
\* {success:false, message:'Invalid email or password', errors:{email:[...]}}.
C15_SigninAfterSignup ==
    \A c \in Clients :
        LaterSignin(c) =>
            \A p \in SignUpPasswords :
                SignedUpWith(UserByEmail(req[c].email), p) =>
                    IF req[c].password = p
                    THEN result[c] =
                             Return(Response(TRUE, "Signed in successfully", None, None))
                    ELSE result[c] = Return(InvalidCredentials)

\* C15 (amended): as C15, for every signin with e and a non-empty password
\* other than p; an empty password is a validation failure.
C15_SigninAfterSignupNonEmpty ==
    \A c \in Clients :
        LaterSignin(c) =>
            \A p \in SignUpPasswords :
                SignedUpWith(UserByEmail(req[c].email), p) =>
                    CASE req[c].password = p ->
                             result[c] =
                                 Return(Response(TRUE, "Signed in successfully",
                                                 None, None))
                      [] req[c].password = <<>> ->
                             /\ ValidationFailure(c)
                             /\ DOMAIN result[c].value.errors[1] = {"password"}
                      [] OTHER -> result[c] = Return(InvalidCredentials)

C15_Witness ==
    \E c, d \in Clients :
        /\ LaterSignin(c) /\ req[c].password = P6 /\ Succeeded(c)
        /\ LaterSignin(d) /\ req[d].password = P5 /\ Did(d, "verify_false")
        /\ req[c].email = req[d].email

\* C16: the User records are changed only by signup: a step that changes
\* the users table is the createUser step of a signup and appends the new
\* record; signin, signout, getCurrentUser, getUserByEmail and getIssues
\* leave every record as it was, when they succeed and when they fail.
C16_OnlySignupWritesUsers ==
    [][/\ Len(users') >= Len(users)
       /\ SubSeq(users', 1, Len(users)) = users
       /\ users' # users =>
              \E c \in Clients :
                  /\ req[c].op = "signup"
                  /\ req'[c] = req[c]
                  /\ pc[c] = "signup_create"
                  /\ pc'[c] = "signup_session"
                  /\ users' = Append(users, user'[c][1])
                  /\ \A d \in Clients \ {c} :
                         pc'[d] = pc[d] /\ trace'[d] = trace[d]]_vars

C16_Witness ==
    \E c, d \in Clients :
        /\ Len(users) >= 1
        /\ Done(c, "signin") /\ Succeeded(c)
        /\ \/ Done(d, "getIssues") /\ result[d].kind = "throw"
           \/ Done(d, "getCurrentUser") /\ Did(d, "query_error")
           \/ Done(d, "signout") /\ Did(d, "destroy_error")

\* C17: a signin or signup returns success=true exactly when its
\* createSession step completed without error in that request; a success=true
\* response has no errors and no error field, and the message 'Signed in
\* successfully' (signin) or 'Account created successfully' (signup).
C17_SuccessIffSessionCreated ==
    \A c \in Clients :
        (Done(c, "signin") \/ Done(c, "signup")) =>
            /\ result[c].kind = "return"
            /\ result[c].value.success <=> Did(c, "session_ok")
            /\ Did(c, "session_ok") =>
                   /\ trace[c][Len(trace[c])] = "session_ok"
                   /\ cookie[c] = TokenFor(user[c][1])
            /\ result[c].value.success =>
                   /\ result[c].value.errors = None
                   /\ result[c].value.error = None
                   /\ result[c].value.message =
                          IF req[c].op = "signin" THEN "Signed in successfully"
                          ELSE "Account created successfully"

C17_Witness ==
    \E c, d \in Clients :
        /\ Done(c, "signup") /\ Succeeded(c)
        /\ Done(d, "signin") /\ Succeeded(d)
        /\ \E e \in Clients : Done(e, "signin") /\ Did(e, "session_ok")

\* the field errors of the form data of a signin or signup request r
ShapeErrors(r) ==
    IF r.op = "signin" THEN SignInSchema(r) ELSE SignUpSchema(r)

\* the step is the arrival of a request of client c
Arrives(c) ==
    /\ nreq' # nreq
    /\ Idle(c)
    /\ \A d \in Clients \ {c} :
           /\ pc'[d] = pc[d]
           /\ req'[d] = req[d]
           /\ trace'[d] = trace[d]
           /\ result'[d] = result[d]
           /\ cookie'[d] = cookie[d]

\* C18: a signin or signup whose input fails shape validation returns
\* {success:false, message:'Validation failed'} with per-field errors and
\* does nothing on the data store or the session store: the users table and
\* the session channel are unchanged.
C18_ValidationFailureTouchesNothing ==
    [][\A c \in Clients :
           (req'[c].op \in {"signin", "signup"} /\ Arrives(c)) =>
               LET errors == ShapeErrors(req'[c]) IN
               DOMAIN errors # {} =>
               /\ pc'[c] = "done"
               /\ trace'[c] = <<"validate_fail">>
               /\ result'[c] =
                      Return(Response(FALSE, "Validation failed",
                                      Some(errors), None))
               /\ \A f \in DOMAIN errors :
                      /\ f \in {"email", "password", "confirmPassword"}
                      /\ errors[f] # <<>>
               /\ user'[c] = None
               /\ users' = users
               /\ cookie' = cookie]_vars

C18_Witness ==
    \E c, d \in Clients :
        /\ Done(c, "signin") /\ Did(c, "validate_fail")
        /\ Done(d, "signup") /\ Did(d, "validate_fail")
        /\ Len(users) >= 1
        /\ cookie[c] # None

====
